---- MODULE Spec2Model ----
(***************************************************************************)
(* Model of src/Funcoes.py (minimum-phase transform, its inverse and the   *)
(* four sliding-window dataset builders) and of the table construction of  *)
(* src/Testes_sinais_digitais/Dataset_test_02.py.                          *)
(*                                                                         *)
(* numpy arrays are functions over 0..len-1, so indices read as in the     *)
(* source.  A complex sample is an element a + b*z + c*z^2 + d*z^3 of the  *)
(* ring Z[z], z = exp(i*pi/4), z^4 = -1, written <<a, b, c, d>>: the ring  *)
(* holds exp(i*45deg) and every value of the ramp exp(i*Df(t)) exactly     *)
(* when fs/fb divides 4.  Angles are counted in units of pi/4.             *)
(***************************************************************************)
EXTENDS Integers, Sequences, FiniteSets, TLC

\* ---------------------------------------------------------------- bounds
\* stand-in for the builders' row count (size = 60000 in the source)
size == 3
\* stand-in for the script's row count (size = 5000 in the source)
size_02 == 2
\* largest window order passed to a builder
MaxOrdem == 3
\* longest one-mode signal handed to a builder
MaxLen == 12
\* longest filtered signal fed to the minimum-phase transform
MaxLenFM == 4
\* most samples per mode generated by the script (2**16 * SpS in the source)
MaxLen_02 == 8

\* ------------------------------------------------------- array helpers
Min(a, b) == IF a <= b THEN a ELSE b

Max(a, b) == IF a >= b THEN a ELSE b

\* len(a) of a 1-D array
Len0(a) == Cardinality(DOMAIN a)

\* a[lo:hi] for 0 <= lo, 0 <= hi: bounds are clamped to len(a), never an error
Slice(a, lo, hi) ==
    LET L == Len0(a)
        l == Min(lo, L)
        h == Max(l, Min(hi, L))
    IN  [i \in 0..(h - l - 1) |-> a[l + i]]

\* a[::step]
Stride(a, step) ==
    LET L == Len0(a)
        cnt == (L + step - 1) \div step
    IN  [i \in 0..(cnt - 1) |-> a[i * step]]

\* int(ordem/2): true division, then truncation toward zero
IntHalf(ordem) == IF ordem >= 0 THEN ordem \div 2 ELSE -((-ordem) \div 2)

\* ------------------------------------------------------ complex samples
CZero == <<0, 0, 0, 0>>

CAdd(u, v) == <<u[1] + v[1], u[2] + v[2], u[3] + v[3], u[4] + v[4]>>

CSub(u, v) == <<u[1] - v[1], u[2] - v[2], u[3] - v[3], u[4] - v[4]>>

\* product in Z[z], z^4 = -1
CMul(u, v) ==
    << u[1]*v[1] - u[2]*v[4] - u[3]*v[3] - u[4]*v[2],
       u[1]*v[2] + u[2]*v[1] - u[3]*v[4] - u[4]*v[3],
       u[1]*v[3] + u[2]*v[2] + u[3]*v[1] - u[4]*v[4],
       u[1]*v[4] + u[2]*v[3] + u[3]*v[2] + u[4]*v[1] >>

\* complex conjugate: conj(z^k) = z^(-k) = -z^(4-k)
CConj(u) == <<u[1], -u[4], -u[3], -u[2]>>

\* u / v for v on the unit circle: u * conj(v)
CDiv(u, v) == CMul(u, CConj(v))

\* r * z^k for an integer r
Polar(r, k) ==
    LET q == k % 8
        s == IF q >= 4 THEN -r ELSE r
        p == q % 4
    IN  [i \in 1..4 |-> IF i = p + 1 THEN s ELSE 0]

\* np.exp(1j*th), th in units of pi/4
CExp(th) == Polar(1, th)

\* np.abs of a sample r * z^k
CAbs(u) ==
    LET a(x) == IF x < 0 THEN -x ELSE x
    IN  a(u[1]) + a(u[2]) + a(u[3]) + a(u[4])

\* np.angle of a sample r * z^k, in units of pi/4, in (-4, 4]; angle(0) = 0
CAngle(u) ==
    IF u = CZero THEN 0
    ELSE LET i == CHOOSE j \in 1..4 : u[j] # 0
         IN  IF u[i] > 0 THEN i - 1
             ELSE IF i = 1 THEN 4 ELSE i - 5

\* ------------------------------------------------------------- signals
None == [kind |-> "none"]

\* a signal object: samples[mode][n], with its symbol rate and sample rate
Signal(samples, fb, fs) == [kind |-> "signal", samples |-> samples, fb |-> fb, fs |-> fs]

\* sinal[0].size
NSamples(sinal) == Len0(sinal.samples[0])

\* np.max(np.abs(sfilt)) over every mode and sample
MaxAbs(sfilt) ==
    LET vals == {CAbs(sfilt.samples[m][n]) : m \in DOMAIN sfilt.samples, n \in 0..(NSamples(sfilt) - 1)}
    IN  CHOOSE v \in vals : \A w \in vals : w <= v

\* np.arange(0, N)
arange(N) == [n \in 0..(N - 1) |-> n]

\* Df = 2*pi*(fb/2)*t with t = arange(0, N)*1/fs, in units of pi/4
Ramp(N, fb, fs) ==
    LET t == arange(N)
    IN  [n \in DOMAIN t |-> (4 * fb * t[n]) \div fs]

\* Funcoes.py, lines 28-34: sfilt is the normalised, filtered signal of
\* lines 23-27; returns the pair (sfm, A)
sinal_qam_fase_min(sfilt) ==
    LET A  == Polar(MaxAbs(sfilt), 1)
        Df == Ramp(NSamples(sfilt), sfilt.fb, sfilt.fs)
        sfm == Signal([m \in DOMAIN sfilt.samples |->
                          [n \in DOMAIN sfilt.samples[m] |->
                              CAdd(A, CMul(sfilt.samples[m][n], CExp(Df[n])))]],
                      sfilt.fb, sfilt.fs)
    IN  [kind |-> "fm", sfm |-> sfm, A |-> A]

\* the same inverse with the time vector starting one sample late
reverter_late(sinal, A) ==
    LET Df == Ramp(NSamples(sinal) + 1, sinal.fb, sinal.fs)
    IN  Signal([m \in DOMAIN sinal.samples |->
                   [n \in DOMAIN sinal.samples[m] |->
                       CDiv(CSub(sinal.samples[m][n], A), CExp(Df[n + 1]))]],
               sinal.fb, sinal.fs)

\* Funcoes.py, lines 36-41
reverter_sinal_fase_min(sinal, A) ==
    LET Df == Ramp(NSamples(sinal), sinal.fb, sinal.fs)
    IN  Signal([m \in DOMAIN sinal.samples |->
                   [n \in DOMAIN sinal.samples[m] |->
                       CDiv(CSub(sinal.samples[m][n], A), CExp(Df[n]))]],
               sinal.fb, sinal.fs)

\* np.abs(sfm.copy()[0]), np.angle(sfm.copy()[0])
abs_and_phases(sfm) ==
    [amplitudes |-> [n \in DOMAIN sfm.samples[0] |-> CAbs(sfm.samples[0][n])],
     phases     |-> [n \in DOMAIN sfm.samples[0] |-> CAngle(sfm.samples[0][n])]]

\* ------------------------------------------------------ dataset builders
ValueError == [status |-> "ValueError"]

Record(data, X, y) == [status |-> "ok", data |-> data, X |-> X, y |-> y]

\* the window read one sample too long
Window_long(amplitudes, n, w) == Slice(amplitudes, n, w + n + 1)

\* amplitudes[n:w+n]
Window(amplitudes, n, w) == Slice(amplitudes, n, w + n)

\* X[n] = aux on a row of shape (ordem,): a one-element aux is broadcast over
\* the row, any other length mismatch raises ValueError
RowFits(aux, ordem) == Len0(aux) = ordem \/ Len0(aux) = 1

RowAssign(aux, ordem) ==
    IF Len0(aux) = ordem THEN aux ELSE [k \in 0..(ordem - 1) |-> aux[0]]

\* aux.reshape(ordem, ordem): row-major, raises ValueError unless
\* len(aux) = ordem*ordem
ReshapeFits(aux, ordem) == Len0(aux) = ordem * ordem

\* the grid filled column by column
Reshape2_colmajor(aux, ordem) ==
    [i \in 0..(ordem - 1) |-> [j \in 0..(ordem - 1) |-> aux[j * ordem + i]]]

Reshape2(aux, ordem) ==
    [i \in 0..(ordem - 1) |-> [j \in 0..(ordem - 1) |-> aux[i * ordem + j]]]

\* X.reshape((size, ordem, ordem, 1))
Reshape4(X, ordem) ==
    [n \in DOMAIN X |-> [i \in 0..(ordem - 1) |-> [j \in 0..(ordem - 1) |->
        [c \in {0} |-> X[n][i][j]]]]]

\* lines 82-85 (and 115-118, 148-151): the loop filling X, row by row
FillOk(amplitudes, ordem) ==
    \A n \in 0..(size - 1) : RowFits(Window(amplitudes, n, ordem), ordem)

Fill(amplitudes, ordem) ==
    [n \in 0..(size - 1) |-> RowAssign(Window(amplitudes, n, ordem), ordem)]

\* lines 181-185
FillOkCNN(amplitudes, ordem) ==
    \A n \in 0..(size - 1) : ReshapeFits(Window(amplitudes, n, ordem * ordem), ordem)

FillCNN(amplitudes, ordem) ==
    Reshape4([n \in 0..(size - 1) |->
                 Reshape2(Window(amplitudes, n, ordem * ordem), ordem)], ordem)

\* line 86, with the target one sample after the window
y_01_after(phases, ordem) == Slice(phases, ordem, size + ordem)

\* line 86
y_01(phases, ordem) == Slice(phases, ordem - 1, size + ordem - 1)

\* lines 87-88, with the raw traces left at the window start
data_01_start(data, ordem) ==
    [amplitudes |-> Slice(data.amplitudes, 0, size),
     phases     |-> Slice(data.phases, 0, size)]

\* lines 87-88
data_01(data, ordem) ==
    [amplitudes |-> Slice(data.amplitudes, ordem - 1, size + ordem - 1),
     phases     |-> Slice(data.phases, ordem - 1, size + ordem - 1)]

dataset_01(sfm, ordem) ==
    LET data == abs_and_phases(sfm)
    IN  IF ~FillOk(data.amplitudes, ordem) THEN ValueError
        ELSE Record(data_01(data, ordem), Fill(data.amplitudes, ordem),
                    y_01(data.phases, ordem))

\* line 119, with the offset rounded up
y_02_ceil(phases, ordem) ==
    Slice(phases, (ordem + 1) \div 2, size + (ordem + 1) \div 2)

\* line 119
y_02(phases, ordem) == Slice(phases, IntHalf(ordem), size + IntHalf(ordem))

\* lines 120-121
data_02(data, ordem) ==
    [amplitudes |-> Slice(data.amplitudes, IntHalf(ordem), size + IntHalf(ordem)),
     phases     |-> Slice(data.phases, IntHalf(ordem), size + IntHalf(ordem))]

dataset_02(sfm, ordem) ==
    LET data == abs_and_phases(sfm)
    IN  IF ~FillOk(data.amplitudes, ordem) THEN ValueError
        ELSE Record(data_02(data, ordem), Fill(data.amplitudes, ordem),
                    y_02(data.phases, ordem))

\* line 152, with the target taken at the second sample
y_03_second(phases) == Slice(phases, 1, size + 1)

\* line 152 (and 186)
y_03(phases) == Slice(phases, 0, size)

\* lines 153-154 (and 187-188)
data_03(data) ==
    [amplitudes |-> Slice(data.amplitudes, 0, size),
     phases     |-> Slice(data.phases, 0, size)]

dataset_03(sfm, ordem) ==
    LET data == abs_and_phases(sfm)
    IN  IF ~FillOk(data.amplitudes, ordem) THEN ValueError
        ELSE Record(data_03(data), Fill(data.amplitudes, ordem), y_03(data.phases))

dataset_02_CNN(sfm, ordem) ==
    LET data == abs_and_phases(sfm)
    IN  IF ~FillOkCNN(data.amplitudes, ordem) THEN ValueError
        ELSE Record(data_03(data), FillCNN(data.amplitudes, ordem), y_03(data.phases))

\* ------------------------------------------- Dataset_test_02.py, 44-66
\* a.reshape(-1, cols)[:size_02]
ReshapeRows(a, cols) ==
    LET rows == Min(size_02, Len0(a) \div cols)
    IN  [k \in 0..(rows - 1) |-> [c \in 0..(cols - 1) |-> a[k * cols + c]]]

\* np.concatenate((X, y), axis=1)
Concatenate(X, y, cols) ==
    [k \in DOMAIN X |-> [c \in 0..cols |-> IF c < cols THEN X[k][c] ELSE y[k][0]]]

\* the table built from one mode, with every target taken from mode 0
table_mode0(sfm, mode, n_features) ==
    LET amplitudes == [n \in DOMAIN sfm.samples[mode] |-> CAbs(sfm.samples[mode][n])]
        phases == Stride([n \in DOMAIN sfm.samples[0] |-> CAngle(sfm.samples[0][n])],
                         n_features)
    IN  Concatenate(ReshapeRows(amplitudes, n_features), ReshapeRows(phases, 1), n_features)

\* lines 45-47, 56, 60, 65 for mode 0 and lines 50-52, 57, 62, 66 for mode 1
table(sfm, mode, n_features) ==
    LET amplitudes == [n \in DOMAIN sfm.samples[mode] |-> CAbs(sfm.samples[mode][n])]
        phases == Stride([n \in DOMAIN sfm.samples[mode] |-> CAngle(sfm.samples[mode][n])],
                         n_features)
    IN  Concatenate(ReshapeRows(amplitudes, n_features), ReshapeRows(phases, 1), n_features)

\* --------------------------------------------------------------- state
VARIABLES pc, sfilt, fm, revertido, sfm, fn, ordem, ret, SpS, dataset_train, dataset_test

vars == <<pc, sfilt, fm, revertido, sfm, fn, ordem, ret, SpS, dataset_train, dataset_test>>

\* samples of the signals handed to the builders and the script
Samples == {Polar(1, 0), Polar(2, 3)}

\* samples of the filtered signals
SamplesFilt == {CZero, Polar(1, 6), Polar(2, 3)}

Init ==
    /\ pc = "idle"
    /\ sfilt = None /\ fm = None /\ revertido = None
    /\ sfm = None /\ fn = "none" /\ ordem = 0 /\ ret = None
    /\ SpS = 0 /\ dataset_train = None /\ dataset_test = None

\* Funcoes.py, lines 23-34: the external chain yields the filtered signal
\* (one mode, fs = SpS*Fb), the transform yields (sfm, A)
Call_sinal_qam_fase_min ==
    /\ pc = "idle"
    /\ \E Fb \in 1..2, sps \in {1, 2, 4}, nsym \in 1..MaxLenFM :
         /\ nsym * sps <= MaxLenFM
         /\ \E x \in [0..(nsym * sps - 1) -> SamplesFilt] :
              /\ sfilt' = Signal([m \in {0} |-> x], Fb, sps * Fb)
              /\ fm' = sinal_qam_fase_min(sfilt')
    /\ pc' = "fase_min"
    /\ UNCHANGED <<revertido, sfm, fn, ordem, ret, SpS, dataset_train, dataset_test>>

\* Funcoes.py, lines 36-41, called on the pair the transform returned
Call_reverter_sinal_fase_min ==
    /\ pc = "fase_min"
    /\ revertido' = reverter_sinal_fase_min(fm.sfm, fm.A)
    /\ pc' = "revertido"
    /\ UNCHANGED <<sfilt, fm, sfm, fn, ordem, ret, SpS, dataset_train, dataset_test>>

\* a one-mode signal reaches a caller of the builders
NewSfm ==
    /\ pc = "idle"
    /\ \E L \in 0..MaxLen : \E x \in [0..(L - 1) -> Samples] :
         sfm' = Signal([m \in {0} |-> x], 1, 1)
    /\ pc' = "sfm"
    /\ UNCHANGED <<sfilt, fm, revertido, fn, ordem, ret, SpS, dataset_train, dataset_test>>

Call_dataset_01 ==
    /\ pc = "sfm"
    /\ \E o \in 1..MaxOrdem : ordem' = o /\ ret' = dataset_01(sfm, o)
    /\ fn' = "dataset_01" /\ pc' = "returned"
    /\ UNCHANGED <<sfilt, fm, revertido, sfm, SpS, dataset_train, dataset_test>>

Call_dataset_02 ==
    /\ pc = "sfm"
    /\ \E o \in 1..MaxOrdem : ordem' = o /\ ret' = dataset_02(sfm, o)
    /\ fn' = "dataset_02" /\ pc' = "returned"
    /\ UNCHANGED <<sfilt, fm, revertido, sfm, SpS, dataset_train, dataset_test>>

Call_dataset_03 ==
    /\ pc = "sfm"
    /\ \E o \in 1..MaxOrdem : ordem' = o /\ ret' = dataset_03(sfm, o)
    /\ fn' = "dataset_03" /\ pc' = "returned"
    /\ UNCHANGED <<sfilt, fm, revertido, sfm, SpS, dataset_train, dataset_test>>

Call_dataset_02_CNN ==
    /\ pc = "sfm"
    /\ \E o \in 1..MaxOrdem : ordem' = o /\ ret' = dataset_02_CNN(sfm, o)
    /\ fn' = "dataset_02_CNN" /\ pc' = "returned"
    /\ UNCHANGED <<sfilt, fm, revertido, sfm, SpS, dataset_train, dataset_test>>

\* Dataset_test_02.py, lines 19-40: a two-mode signal of nsym*SpS samples per
\* mode; the script has 2**16 symbols, so the samples fill whole rows and
\* there are at least size_02 rows
Script_sfm ==
    /\ pc = "idle"
    /\ \E sps \in 1..2, nsym \in 1..MaxLen_02 :
         /\ nsym % 2 = 0 /\ nsym \div 2 >= size_02 /\ nsym * sps <= MaxLen_02
         /\ SpS' = sps
         /\ \E x \in [0..1 -> [0..(nsym * sps - 1) -> Samples]] :
              sfm' = Signal(x, 1, sps)
    /\ pc' = "script"
    /\ UNCHANGED <<sfilt, fm, revertido, fn, ordem, ret, dataset_train, dataset_test>>

\* Dataset_test_02.py, lines 44-66
Script_tables ==
    /\ pc = "script"
    /\ LET n_features == SpS * 2
       IN  /\ dataset_train' = table(sfm, 0, n_features)
           /\ dataset_test' = table(sfm, 1, n_features)
    /\ pc' = "exported"
    /\ UNCHANGED <<sfilt, fm, revertido, sfm, fn, ordem, ret, SpS>>

Next ==
    \/ Call_sinal_qam_fase_min
    \/ Call_reverter_sinal_fase_min
    \/ NewSfm
    \/ Call_dataset_01
    \/ Call_dataset_02
    \/ Call_dataset_03
    \/ Call_dataset_02_CNN
    \/ Script_sfm
    \/ Script_tables

Spec == Init /\ [][Next]_vars

\* --------------------------------------------------------- properties
\* the traces of mode 0 of the signal a builder was called on
amp == abs_and_phases(sfm).amplitudes

ph == abs_and_phases(sfm).phases

Returned(f) == pc = "returned" /\ fn = f

\* samples a builder's windows span
Span(f) == IF f = "dataset_02_CNN" THEN ordem * ordem ELSE ordem

\* the spec's "enough samples" for the call that returned
Enough == size + Span(fn) <= Len0(amp)

Rows == 0..(size - 1)

\* X[n] is the window of `ordem` amplitudes starting at n
RowIsWindow(n) ==
    /\ Len0(ret.X[n]) = ordem
    /\ n + ordem <= Len0(amp)
    /\ \A k \in 0..(ordem - 1) : ret.X[n][k] = amp[n + k]

\* X[n] is the ordem x ordem x 1 grid of the ordem^2 amplitudes starting at n
RowIsGrid(n) ==
    /\ Len0(ret.X[n]) = ordem
    /\ n + ordem * ordem <= Len0(amp)
    /\ \A i \in 0..(ordem - 1) :
         /\ Len0(ret.X[n][i]) = ordem
         /\ \A j \in 0..(ordem - 1) :
              /\ DOMAIN ret.X[n][i][j] = {0}
              /\ ret.X[n][i][j][0] = amp[n + i * ordem + j]

\* the column of X[n] the variant's target is aligned with
PolicyOffset == IF fn = "dataset_01" THEN ordem - 1
                ELSE IF fn = "dataset_02" THEN ordem \div 2 ELSE 0

PolicyCell(n) == IF fn = "dataset_02_CNN" THEN ret.X[n][0][0][0]
                 ELSE ret.X[n][PolicyOffset]

\* C1: with enough samples, every builder returns raw traces of exactly
\* `size` entries that are index-aligned with the targets and the feature
\* rows: data.phases[n] = y[n], and data.amplitudes[n] is the amplitude at
\* the source index of y[n], which is the policy cell of X[n].
C1_TracesAligned ==
    (pc = "returned" /\ Enough) =>
        /\ ret.status = "ok"
        /\ Len0(ret.data.amplitudes) = size
        /\ Len0(ret.data.phases) = size
        /\ \A n \in Rows :
             /\ ret.data.phases[n] = ret.y[n]
             /\ ret.y[n] = ph[PolicyOffset + n]
             /\ ret.data.amplitudes[n] = amp[PolicyOffset + n]
             /\ ret.data.amplitudes[n] = PolicyCell(n)

C1_Witness ==
    /\ Returned("dataset_01") /\ Enough /\ ordem = 3 /\ ret.status = "ok"
    /\ ret.data.amplitudes[0] # ret.data.amplitudes[size - 1]
    /\ amp[0] # amp[ordem - 1]

\* C2: dataset_01 with enough samples: X[n][k] = amplitudes[n+k] and
\* y[n] = phases[ordem-1+n], the phase at the last sample of row n's window.
C2_LastSample ==
    (Returned("dataset_01") /\ Enough) =>
        /\ ret.status = "ok"
        /\ \A n \in Rows : RowIsWindow(n) /\ ret.y[n] = ph[ordem - 1 + n]

C2_Witness ==
    /\ Returned("dataset_01") /\ Enough /\ ordem = 3 /\ ret.status = "ok"
    /\ ph[ordem - 1] # ph[ordem] /\ ph[ordem - 1] # ph[ordem - 2]
    /\ ret.y[0] # ret.y[size - 1]

\* C3: dataset_02 with enough samples, even and odd order:
\* X[n][k] = amplitudes[n+k] and y[n] = phases[floor(ordem/2)+n], an index
\* inside row n's window [n, n+ordem-1].
C3_CenterSample ==
    (Returned("dataset_02") /\ Enough) =>
        /\ ret.status = "ok"
        /\ \A n \in Rows :
             /\ RowIsWindow(n)
             /\ ret.y[n] = ph[(ordem \div 2) + n]
             /\ \E k \in 0..(ordem - 1) :
                  /\ (ordem \div 2) + n = n + k
                  /\ ret.data.amplitudes[n] = ret.X[n][k]

C3_Witness ==
    /\ Returned("dataset_02") /\ Enough /\ ordem = 3 /\ ret.status = "ok"
    /\ ph[1] # ph[2] /\ ph[1] # ph[0]
    /\ ret.y[0] = ph[1]

\* C4: dataset_03 with enough samples: X[n][k] = amplitudes[n+k] and
\* y[n] = phases[n], the phase at the first sample of row n's window.
C4_FirstSample ==
    (Returned("dataset_03") /\ Enough) =>
        /\ ret.status = "ok"
        /\ \A n \in Rows : RowIsWindow(n) /\ ret.y[n] = ph[n]

C4_Witness ==
    /\ Returned("dataset_03") /\ Enough /\ ordem = 3 /\ ret.status = "ok"
    /\ ph[0] # ph[1] /\ ret.y[0] # ret.y[1]

\* C5: dataset_02_CNN with enough samples: X[n][i][j][0] =
\* amplitudes[n + i*ordem + j] (row-major grid, trailing singleton axis) and
\* y[n] = phases[n].
C5_CNNGrid ==
    (Returned("dataset_02_CNN") /\ Enough) =>
        /\ ret.status = "ok"
        /\ \A n \in Rows : RowIsGrid(n) /\ ret.y[n] = ph[n]

C5_Witness ==
    /\ Returned("dataset_02_CNN") /\ Enough /\ ordem = 3 /\ ret.status = "ok"
    /\ ret.X[0][0][1][0] # ret.X[0][1][0][0]
    /\ ret.X[1][2][2][0] # ret.X[0][2][2][0]

\* C6: the inverse applied to the pair (sfm, A) of the forward transform
\* rebuilds the ramp of the forward transform and returns the filtered
\* signal, sample by sample, in every mode.
C6_RoundTrip ==
    pc = "revertido" =>
        /\ Ramp(NSamples(fm.sfm), fm.sfm.fb, fm.sfm.fs)
             = Ramp(NSamples(sfilt), sfilt.fb, sfilt.fs)
        /\ DOMAIN revertido.samples = DOMAIN sfilt.samples
        /\ \A m \in DOMAIN sfilt.samples : revertido.samples[m] = sfilt.samples[m]

C6_Witness ==
    /\ pc = "revertido"
    /\ NSamples(sfilt) = 4 /\ sfilt.fs = 4 * sfilt.fb
    /\ sfilt.samples[0][3] = Polar(2, 3) /\ sfilt.samples[0][1] = Polar(1, 6)
    /\ fm.sfm.samples[0][3] # CAdd(fm.A, sfilt.samples[0][3])
    /\ revertido.samples[0][3] = Polar(2, 3)

\* a returned record is well formed: `size` rows, each the full window (or
\* grid) starting at its row index, and `size` targets
WellFormed ==
    /\ ret.status = "ok"
    /\ DOMAIN ret.X = Rows
    /\ Len0(ret.y) = size
    /\ \A n \in Rows : IF fn = "dataset_02_CNN" THEN RowIsGrid(n) ELSE RowIsWindow(n)

\* C7: for every order and every input length, a record a builder returns
\* has `size` rows that are each a full window of distinct consecutive
\* samples starting at the row index, and `size` targets.
C7_RecordsWellFormed ==
    (pc = "returned" /\ ret.status = "ok") => WellFormed

\* C8: dataset_01, dataset_02 and dataset_03 end in an error, and return no
\* record, whenever size + ordem > len(amplitudes).
C8_BoundsRejected ==
    (pc = "returned" /\ fn # "dataset_02_CNN" /\ size + ordem > Len0(amp))
        => ret.status = "ValueError"

\* the bound the spec gives for each variant
SpecBound ==
    IF fn = "dataset_02" THEN size + (ordem \div 2) <= Len0(amp) ELSE Enough

\* C9 as stated: under the spec's per-variant bound (size + floor(ordem/2)
\* for dataset_02) the builder completes and returns `size` full windows
\* and `size` targets.
C9_SpecBoundsSuffice ==
    (pc = "returned" /\ SpecBound) => WellFormed

\* C9 as amended: with size + ordem <= len(amplitudes) for dataset_01,
\* dataset_02 and dataset_03, and size + ordem^2 <= len(amplitudes) for
\* dataset_02_CNN, the builder completes and returns `size` full windows and
\* `size` targets.
C9_WindowBoundsSuffice ==
    (pc = "returned" /\ Enough) => WellFormed

C9_Witness ==
    /\ Returned("dataset_02") /\ ordem = 3 /\ Len0(amp) = size + ordem
    /\ ret.status = "ok" /\ ret.X[size - 1][ordem - 1] = amp[size + ordem - 2]
    /\ amp[size + ordem - 2] # amp[size + ordem - 3]

\* the table exported for one mode
TableOf(t, mode) ==
    LET n_features == 2 * SpS
    IN  /\ DOMAIN t = 0..(size_02 - 1)
        /\ \A k \in DOMAIN t :
             /\ DOMAIN t[k] = 0..n_features
             /\ \A c \in 0..(n_features - 1) :
                  t[k][c] = CAbs(sfm.samples[mode][k * n_features + c])
             /\ t[k][n_features] = CAngle(sfm.samples[mode][k * n_features])

\* C10: dataset_train and dataset_test have size rows of n_features + 1
\* columns; row k holds amplitudes k*n_features .. k*n_features+n_features-1
\* of mode 0 (train) or mode 1 (test), then the phase of that mode at sample
\* k*n_features.
C10_ExportedTables ==
    pc = "exported" => TableOf(dataset_train, 0) /\ TableOf(dataset_test, 1)

C10_Witness ==
    /\ pc = "exported" /\ SpS = 2 /\ NSamples(sfm) = 8
    /\ sfm.samples[0][4] # sfm.samples[1][4]
    /\ sfm.samples[1][4] # sfm.samples[1][5]
    /\ sfm.samples[1][4] # sfm.samples[1][3]
    /\ dataset_test[1][4] = CAngle(sfm.samples[1][4])

====
